---- MODULE Spec2Model ----
(***************************************************************************)
(* Model of the xv6 buffer cache of src/bio.c: binit, bget, bread, bwrite, *)
(* brelse, and the calls that main makes on them.                          *)
(*                                                                         *)
(* Every function is one action that runs the function from its entry to   *)
(* its return or to the ERROR label, statement by statement.  The callers  *)
(* (main and one other) invoke the four operations one call after the      *)
(* other with arbitrary arguments.  `last` records the call that has just  *)
(* run: its arguments, what it returned and the statements of interest it  *)
(* went through, in their order.                                           *)
(*                                                                         *)
(* refcnt is an unsigned 32-bit integer.  It is held here as the residue   *)
(* modulo 2^32 that is nearest to zero, so -1 stands for 4294967295: the   *)
(* code only ever compares it with 0 and 1, increments and decrements it.  *)
(***************************************************************************)
EXTENDS Integers, Sequences, FiniteSets, TLC

\* ------------------------------------------------------------ constants
NBUF == 3

\* ------------------------------------------------------------ bounds
\* most calls of bget, bread, bwrite and brelse in a run
MaxCalls == 5
\* most calls in a run that fills the pool (SpecSat)
MaxSatCalls == 8

\* main (caller 1) and one other caller
Callers == {1, 2}
Slots == 0..(NBUF - 1)
\* index of the sentinel bcache.head among the list nodes
HEAD == NBUF
Nodes == 0..NBUF
\* the null pointer
NULL == -1

\* (dev, blockno) pairs the callers ask for: the address of a zeroed slot and
\* the two addresses of main
Addrs == {<<0, 0>>, <<10, 20>>, <<20, 40>>}
\* one address more than the pool has slots, for the runs that fill the pool
SatAddrs == Addrs \cup {<<10, 40>>}

VARIABLES
  status,       \* "running", "error" (__VERIFIER_error), "segv" (null store)
  boot,         \* main's place around binit: "start", "inited", "run"
  initcheck,    \* main's local initcheck
  lock,         \* bcache.lock
  buf,          \* bcache.buf[i]: valid, dirty, dev, blockno, lock, refcnt
  next,         \* next pointer of every list node (slots and head)
  prev,         \* prev pointer of every list node
  last,         \* history: the call that has just run
  holds,        \* history: slots handed to each caller and not yet released
  misuses,      \* history: releases of a slot the caller did not hold
  calls,        \* history: calls of bget, bread, bwrite and brelse so far
  script        \* history: how far the calls so far are exactly those of main

vars == <<status, boot, initcheck, lock, buf, next, prev, last, holds,
          misuses, calls, script>>

cache == <<lock, buf, next, prev>>
ghosts == <<last, holds, misuses, calls, script>>

\* ------------------------------------------------------------ static storage
ZeroBuf == [valid |-> 0, dirty |-> 0, dev |-> 0, blockno |-> 0, lock |-> 0,
            refcnt |-> 0]

NoCall == [op |-> "none"]

Init ==
  /\ status = "running"
  /\ boot = "start"
  /\ initcheck = 0
  /\ lock = 0
  /\ buf = [i \in Slots |-> ZeroBuf]
  /\ next = [n \in Nodes |-> NULL]
  /\ prev = [n \in Nodes |-> NULL]
  /\ last = NoCall
  /\ holds = [c \in Callers |-> [i \in Slots |-> 0]]
  /\ misuses = 0
  /\ calls = 0
  /\ script = 0

\* ------------------------------------------------------------ binit
\* BinitLink without line 85 (bcache.head.next->prev = b)
BinitLinkNoBack(l, i) ==
  LET n1 == [l.next EXCEPT ![i] = l.next[HEAD]]
      p1 == [l.prev EXCEPT ![i] = HEAD]
      n2 == [n1 EXCEPT ![HEAD] = i]
  IN  [next |-> n2, prev |-> p1]

\* One pass of the loop of binit for slot i: link i in right after head.
BinitLink(l, i) ==
  LET n1 == [l.next EXCEPT ![i] = l.next[HEAD]]
      p1 == [l.prev EXCEPT ![i] = HEAD]
      p2 == [p1 EXCEPT ![n1[HEAD]] = i]
      n2 == [n1 EXCEPT ![HEAD] = i]
  IN  [next |-> n2, prev |-> p2]

RECURSIVE BinitLoop(_, _)
BinitLoop(l, i) ==
  IF i >= NBUF THEN l ELSE BinitLoop(BinitLink(l, i), i + 1)

\* The list binit builds: head linked to itself, then every slot linked in.
BinitList ==
  BinitLoop([next |-> [next EXCEPT ![HEAD] = HEAD],
             prev |-> [prev EXCEPT ![HEAD] = HEAD]], 0)

\* The checks of binit on the list it built (lines 89-120).
BinitCheck(l) ==
  /\ l.next[HEAD] = NBUF - 1
  /\ l.prev[HEAD] = 0
  /\ \A i \in Slots :
       IF i = 0 THEN l.next[i] = HEAD /\ l.prev[i] = i + 1
       ELSE IF i = NBUF - 1 THEN l.next[i] = i - 1 /\ l.prev[i] = HEAD
       ELSE l.next[i] = i - 1 /\ l.prev[i] = i + 1

binit ==
  /\ status = "running"
  /\ boot = "start"
  /\ LET l == BinitList
     IN  /\ lock' = 0
         /\ next' = l.next
         /\ prev' = l.prev
         /\ buf' = [i \in Slots |-> [buf[i] EXCEPT !.lock = 0]]
         /\ IF BinitCheck(l)
            THEN initcheck' = 0 /\ status' = status
            ELSE initcheck' = initcheck /\ status' = "error"
  /\ boot' = "inited"
  /\ UNCHANGED ghosts

\* main, lines 325-328
main_initcheck ==
  /\ status = "running"
  /\ boot = "inited"
  /\ boot' = "run"
  /\ status' = IF initcheck # 0 THEN "error" ELSE status
  /\ UNCHANGED <<initcheck, cache, ghosts>>

\* ------------------------------------------------------------ executions
\* A function runs on the cache k = [lock, buf, next, prev] and yields
\* [k, out, ret, log]: the cache it leaves, how it ended ("ret", "error" at
\* the ERROR label, "segv"), the pointer it returned and the statements of
\* interest it went through.
Cache == [lock |-> lock, buf |-> buf, next |-> next, prev |-> prev]

Ret(k, r, log) == [k |-> k, out |-> "ret", ret |-> r, log |-> log]

\* goto ERROR: __VERIFIER_error() stops the program
Error(k, log) == [k |-> k, out |-> "error", ret |-> NULL, log |-> log]

Killed(k, log) == [k |-> k, out |-> "segv", ret |-> NULL, log |-> log]

\* ------------------------------------------------------------ bget
\* The slots from node n on, following link (next or prev) up to the head.
\* The loops of bget stop at the head only; the walk also stops after fuel
\* slots, which a list of NBUF slots never exhausts.
RECURSIVE Walk(_, _, _)
Walk(link, n, fuel) ==
  IF n = HEAD \/ n = NULL \/ fuel = 0 THEN <<>>
  ELSE <<n>> \o Walk(link, link[n], fuel - 1)

\* the first slot of seq that is in set S, the null pointer if there is none:
\* the loops of bget leave at the first slot that qualifies
FirstOf(seq, S) ==
  IF \E j \in 1..Len(seq) : seq[j] \in S
  THEN seq[CHOOSE j \in 1..Len(seq) :
             seq[j] \in S /\ \A h \in 1..(j - 1) : seq[h] \notin S]
  ELSE NULL

\* HitScan comparing blockno with dev in line 152
HitScanTypo(k, d, bn) ==
  FirstOf(Walk(k.next, k.next[HEAD], NBUF),
          {i \in Slots : k.buf[i].dev = d /\ k.buf[i].blockno = d})

\* first loop of bget (lines 151-152): the first slot from head.next on,
\* along next, that is bound to (d, bn)
HitScan(k, d, bn) ==
  FirstOf(Walk(k.next, k.next[HEAD], NBUF),
          {i \in Slots : k.buf[i].dev = d /\ k.buf[i].blockno = bn})

\* Recyclable without the test of refcnt in line 169
RecyclableOwned(bf) == bf.dirty = 1

\* line 169: the slot may be recycled
Recyclable(bf) == bf.refcnt = 0 /\ bf.dirty = 1

\* second loop of bget (lines 168-169): the first slot from head.prev on,
\* along prev, that may be recycled
MissScan(k) ==
  FirstOf(Walk(k.prev, k.prev[HEAD], NBUF),
          {i \in Slots : Recyclable(k.buf[i])})

\* lines 170-174
Rebind(bf, d, bn) ==
  [bf EXCEPT !.dev = d, !.blockno = bn, !.dirty = 0, !.valid = 0,
             !.refcnt = 1]

\* BgetHandOver taking the slot lock (lines 160, 181) ahead of the release
\* of bcache.lock
BgetHandOverHolding(k2, i, log) ==
  LET k3 == [k2 EXCEPT !.buf[i].lock = 1]
  IN  IF k3.lock = 0 THEN Error(k3, Append(log, <<"acquiresleep", i, k3.lock>>))
      ELSE Ret([k3 EXCEPT !.lock = 0], i,
               log \o <<<<"acquiresleep", i, k3.lock>>, <<"release">>>>)

\* lines 153-161 and 175-182, k2 being the cache after refcnt++ or after
\* the rebinding of slot i: release(&bcache.lock), then "b.lock = 1" for
\* acquiresleep(&b->lock), then return b.  The log keeps bcache.lock as it
\* is when the slot lock is taken.
BgetHandOver(k2, i, log) ==
  IF k2.lock = 0 THEN Error(k2, log)
  ELSE LET k3 == [k2 EXCEPT !.lock = 0]
           k4 == [k3 EXCEPT !.buf[i].lock = 1]
       IN  Ret(k4, i, log \o <<<<"release">>, <<"acquiresleep", i, k3.lock>>>>)

\* bget, lines 140-190
Bget(k, d, bn) ==
  IF k.lock = 1 THEN Error(k, <<>>)
  ELSE
    LET k1 == [k EXCEPT !.lock = 1]
        h == HitScan(k1, d, bn)
        m == MissScan(k1)
    IN  IF h # NULL
        THEN BgetHandOver([k1 EXCEPT !.buf[h].refcnt = @ + 1], h,
                          <<<<"acquire">>, <<"hit", h>>>>)
        ELSE IF m # NULL
        THEN BgetHandOver([k1 EXCEPT !.buf[m] = Rebind(@, d, bn)], m,
                          <<<<"acquire">>, <<"rebind", m>>>>)
        ELSE Ret(k1, NULL, <<<<"acquire">>>>)

\* ------------------------------------------------------------ iderw
\* the stand-in for the disk driver (lines 193-196)
iderw(k, i) == [k EXCEPT !.buf[i].valid = 1]

\* what the log keeps of a call of iderw: the slot and its flags at the call
IderwEvent(k, i) ==
  IF i = NULL THEN <<"iderw", NULL, 0, 0>>
  ELSE <<"iderw", i, k.buf[i].valid, k.buf[i].dirty>>

\* ------------------------------------------------------------ bread
\* bread, lines 205-230: every way the call may end.  iderw is called on
\* whatever bget returned.  With b == 0 the store of iderw and the load of
\* line 222 go through the null pointer: the program is killed there, or
\* the store is lost and the load yields any value.
Bread(k, d, bn) ==
  LET g == Bget(k, d, bn)
      i == g.ret
      log == Append(g.log, IderwEvent(g.k, i))
  IN  IF g.out # "ret" THEN {g}
      ELSE IF i = NULL
      THEN {Killed(g.k, log), Error(g.k, log), Ret(g.k, NULL, log)}
      ELSE LET k1 == iderw(g.k, i)
           IN  IF k1.buf[i].valid # 1 THEN {Error(k1, log)}
               ELSE {Ret(k1, i, log)}

\* ------------------------------------------------------------ bwrite
\* SetDirty storing 0 in line 242
SetDirtyClears(k, i) == [k EXCEPT !.buf[i].dirty = 0]

\* line 242
SetDirty(k, i) == [k EXCEPT !.buf[i].dirty = 1]

\* bwrite, lines 239-258
Bwrite(k, i) ==
  LET k1 == SetDirty(k, i)
      log == <<IderwEvent(k1, i)>>
      k2 == iderw(k1, i)
  IN  IF k1.buf[i].dirty # 1 THEN Error(k1, <<>>)
      ELSE IF k2.buf[i].valid # 1 THEN Error(k2, log)
      ELSE Ret(k2, NULL, log)

\* ------------------------------------------------------------ brelse
\* Promote without line 287 (b->prev->next = b->next)
PromoteNoUnlink(k, i) ==
  LET p1 == [k.prev EXCEPT ![k.next[i]] = k.prev[i]]
      n2 == [k.next EXCEPT ![i] = k.next[HEAD]]
      p2 == [p1 EXCEPT ![i] = HEAD]
      p3 == [p2 EXCEPT ![n2[HEAD]] = i]
      n3 == [n2 EXCEPT ![HEAD] = i]
  IN  [k EXCEPT !.next = n3, !.prev = p3]

\* lines 286-291: unlink slot i and link it in right after head
Promote(k, i) ==
  LET p1 == [k.prev EXCEPT ![k.next[i]] = k.prev[i]]
      n1 == [k.next EXCEPT ![p1[i]] = k.next[i]]
      n2 == [n1 EXCEPT ![i] = n1[HEAD]]
      p2 == [p1 EXCEPT ![i] = HEAD]
      p3 == [p2 EXCEPT ![n2[HEAD]] = i]
      n3 == [n2 EXCEPT ![HEAD] = i]
  IN  [k EXCEPT !.next = n3, !.prev = p3]

\* lines 296-307: head -> b -> the old mru
BrelseCheck(k, i, mru) ==
  /\ k.next[HEAD] = i
  /\ k.prev[i] = HEAD
  /\ k.next[i] = mru
  /\ k.prev[mru] = i

\* Brelse with b->refcnt-- (line 280) ahead of the test of bcache.lock
BrelseCountsFirst(k, i) ==
  LET k0 == [k EXCEPT !.buf[i].refcnt = @ - 1]
  IN  IF k0.lock = 1 THEN Error(k0, <<>>)
      ELSE
        LET k2 == [k0 EXCEPT !.lock = 1]
            mru == k2.next[HEAD]
            k3 == IF k2.buf[i].refcnt = 0 THEN Promote(k2, i) ELSE k2
            log == <<<<"acquire">>>>
        IN  IF k3.buf[i].refcnt = 0 /\ ~BrelseCheck(k3, i, mru)
            THEN Error(k3, log)
            ELSE IF k3.lock = 0 THEN Error(k3, log)
            ELSE Ret([k3 EXCEPT !.lock = 0], NULL, Append(log, <<"release">>))

\* brelse, lines 271-320
Brelse(k, i) ==
  IF k.lock = 1 THEN Error(k, <<>>)
  ELSE
    LET k1 == [k EXCEPT !.lock = 1]
        k2 == [k1 EXCEPT !.buf[i].refcnt = @ - 1]
        mru == k2.next[HEAD]
        k3 == IF k2.buf[i].refcnt = 0 THEN Promote(k2, i) ELSE k2
        log == <<<<"acquire">>>>
    IN  IF k3.buf[i].refcnt = 0 /\ ~BrelseCheck(k3, i, mru)
        THEN Error(k3, log)
        ELSE IF k3.lock = 0 THEN Error(k3, log)
        ELSE Ret([k3 EXCEPT !.lock = 0], NULL, Append(log, <<"release">>))

\* ------------------------------------------------------------ the callers
Ready ==
  /\ status = "running"
  /\ boot = "run"

\* the cache and the status after the execution x
Leaves(x) ==
  /\ lock' = x.k.lock
  /\ buf' = x.k.buf
  /\ next' = x.k.next
  /\ prev' = x.k.prev
  /\ status' = IF x.out = "ret" THEN status ELSE x.out

\* The calls of main in order (lines 331-356), caller 1 being main: script
\* is the number of main's statements that the calls so far have matched.
OFF == -1
MainReset == {0, 2, 5}
MainCall(n) ==
  CASE n = 1 -> <<"bget", 10, 20>>
    [] n = 3 -> <<"bread", 20, 40>>
    [] n = 4 -> <<"bwrite", 1>>
    [] n = 6 -> <<"brelse", 0>>
    [] OTHER -> <<"none">>

IsMain(c, call) == c = 1 /\ script # OFF /\ MainCall(script) = call

Script(c, call) == IF IsMain(c, call) THEN script + 1 ELSE OFF

\* main, lines 335-338, on the pointer bget(10, 20) returned
MainCheck(x) ==
  IF x.out = "ret" /\ x.ret # NULL
     /\ (\/ x.k.buf[x.ret].dev # 10
         \/ x.k.buf[x.ret].blockno # 20
         \/ x.k.buf[x.ret].refcnt = 0)
  THEN Error(x.k, x.log)
  ELSE x

\* the slot handed to caller c by a call that returned pointer r
Handed(c, r) ==
  IF r = NULL THEN holds ELSE [holds EXCEPT ![c][r] = @ + 1]

\* main, lines 331, 346, 354: bcache.lock = 0 between two calls
main_resetlock ==
  /\ Ready
  /\ lock' = 0
  /\ script' = IF script \in MainReset THEN script + 1 ELSE OFF
  /\ last' = NoCall
  /\ UNCHANGED <<status, boot, initcheck, buf, next, prev, holds, misuses,
                 calls>>

bget(c, d, bn) ==
  /\ Ready
  /\ LET g == Bget(Cache, d, bn)
         x == IF IsMain(c, <<"bget", d, bn>>) THEN MainCheck(g) ELSE g
     IN  /\ Leaves(x)
         /\ last' = [op |-> "bget", by |-> c, dev |-> d, blockno |-> bn,
                     out |-> x.out, ret |-> x.ret, log |-> x.log]
         /\ holds' = Handed(c, x.ret)
  /\ script' = Script(c, <<"bget", d, bn>>)
  /\ calls' = calls + 1
  /\ UNCHANGED <<boot, initcheck, misuses>>

bread(c, d, bn) ==
  /\ Ready
  /\ \E x \in Bread(Cache, d, bn) :
       /\ Leaves(x)
       /\ last' = [op |-> "bread", by |-> c, dev |-> d, blockno |-> bn,
                   out |-> x.out, ret |-> x.ret, log |-> x.log]
       /\ holds' = Handed(c, x.ret)
  /\ script' = Script(c, <<"bread", d, bn>>)
  /\ calls' = calls + 1
  /\ UNCHANGED <<boot, initcheck, misuses>>

bwrite(c, i) ==
  /\ Ready
  /\ LET x == Bwrite(Cache, i)
     IN  /\ Leaves(x)
         /\ last' = [op |-> "bwrite", by |-> c, b |-> i, out |-> x.out,
                     log |-> x.log]
  /\ script' = Script(c, <<"bwrite", i>>)
  /\ calls' = calls + 1
  /\ UNCHANGED <<boot, initcheck, holds, misuses>>

brelse(c, i) ==
  /\ Ready
  /\ LET x == Brelse(Cache, i)
     IN  /\ Leaves(x)
         /\ last' = [op |-> "brelse", by |-> c, b |-> i, out |-> x.out,
                     log |-> x.log, mru |-> next[HEAD],
                     held |-> holds[c][i] > 0]
  /\ IF holds[c][i] > 0
     THEN holds' = [holds EXCEPT ![c][i] = @ - 1] /\ misuses' = misuses
     ELSE holds' = holds /\ misuses' = misuses + 1
  /\ script' = Script(c, <<"brelse", i>>)
  /\ calls' = calls + 1
  /\ UNCHANGED <<boot, initcheck>>

\* ------------------------------------------------------------ the program
Next ==
  \/ binit
  \/ main_initcheck
  \/ main_resetlock
  \/ calls < MaxCalls /\ \E c \in Callers, a \in Addrs : bget(c, a[1], a[2])
  \/ calls < MaxCalls /\ \E c \in Callers, a \in Addrs : bread(c, a[1], a[2])
  \/ calls < MaxCalls /\ \E c \in Callers, i \in Slots : bwrite(c, i)
  \/ calls < MaxCalls /\ \E c \in Callers, i \in Slots : brelse(c, i)

Spec == Init /\ [][Next]_vars

\* The runs that fill the pool: main writes slots and acquires addresses,
\* releasing nothing, for longer than in Spec.
NextSat ==
  \/ binit
  \/ main_initcheck
  \/ calls < MaxSatCalls /\ \E a \in SatAddrs : bget(1, a[1], a[2])
  \/ calls < MaxSatCalls /\ \E i \in Slots : bwrite(1, i)

SpecSat == Init /\ [][NextSat]_vars

\* ------------------------------------------------------------ properties
\* owners > 0, refcnt being unsigned
Owned(i) == buf[i].refcnt # 0

Bound(i, a) == buf[i].dev = a[1] /\ buf[i].blockno = a[2]

\* the calls of iderw that the last call made
IderwCalls ==
  {last.log[j] : j \in {h \in 1..Len(last.log) : last.log[h][1] = "iderw"}}

Returned(o) == last.op = o /\ last.out = "ret"

\* C1: after any calls, a slot that bget(d, b) returns has dev = d,
\* blockno = b and refcnt >= 1.
C1_AcquireReturnsBoundSlot ==
  (Returned("bget") /\ last.ret # NULL) =>
    /\ buf[last.ret].dev = last.dev
    /\ buf[last.ret].blockno = last.blockno
    /\ Owned(last.ret)

\* C2: bread returns a slot that is valid or ends in a reported outcome; it
\* never returns an invalid slot and never works on the null pointer that
\* bget returned.
C2_ReadValidOrReported ==
  last.op = "bread" =>
    /\ \A e \in IderwCalls : e[2] # NULL
    /\ last.out # "segv"
    /\ (last.out = "ret" /\ last.ret # NULL) => buf[last.ret].valid = 1

\* C3: a brelse that brings refcnt from 1 to 0 returns without fault, with
\* the slot right after head and the former head.next right after the slot,
\* wherever the slot was in the list.
C3_ReleasePromotes ==
  (last.op = "brelse" /\ buf[last.b].refcnt = 0) =>
    /\ last.out = "ret"
    /\ next[HEAD] = last.b
    /\ next[last.b] = last.mru

\* C4: binit returns 0 without fault and leaves a circular doubly linked
\* list in array order: every node's links agree with its neighbours', and
\* from head the walk along next visits slots N-1 .. 0, the walk along prev
\* slots 0 .. N-1, each once, and comes back to head.
C4_InitBuildsList ==
  boot = "inited" =>
    /\ status = "running"
    /\ initcheck = 0
    /\ \A x \in Nodes : next[x] \in Nodes /\ prev[x] \in Nodes
    /\ \A x \in Nodes : prev[next[x]] = x /\ next[prev[x]] = x
    /\ Walk(next, next[HEAD], NBUF + 1) = [j \in 1..NBUF |-> NBUF - j]
    /\ Walk(prev, prev[HEAD], NBUF + 1) = [j \in 1..NBUF |-> j - 1]

C4_Initialised == boot = "inited" /\ next[HEAD] = NBUF - 1

\* C5: bwrite sets dirty before it calls iderw, returns without fault, and
\* leaves the slot valid and still dirty.
C5_WriteDirtyThenValid ==
  last.op = "bwrite" =>
    /\ last.out = "ret"
    /\ Len(last.log) = 1
    /\ \E v \in {0, 1} : last.log[1] = <<"iderw", last.b, v, 1>>
    /\ buf[last.b].valid = 1
    /\ buf[last.b].dirty = 1

\* a bwrite of a slot that was neither dirty nor valid
C5_WroteInvalidSlot ==
  /\ Returned("bwrite")
  /\ last.log = <<<<"iderw", last.b, 0, 1>>>>
  /\ status = "running"

\* C6: with every slot owned and the address bound to no slot, bget returns
\* null and does not reach the ERROR label.
C6_SaturatedAcquireReturnsNull ==
  [][\A a \in SatAddrs :
       (/\ \A i \in Slots : Owned(i) /\ ~Bound(i, a)
        /\ bget(1, a[1], a[2]))
       => (last'.out = "ret" /\ last'.ret = NULL)]_vars

\* C7: at most one caller at a time has a given slot: bget does not return a
\* slot that another caller was handed and has not released.
C7_OneHolderPerSlot ==
  \A i \in Slots : Cardinality({c \in Callers : holds[c][i] > 0}) <= 1

\* C8: bread calls iderw only on a slot that is not valid.
C8_ReadsOnlyInvalid ==
  last.op = "bread" => \A e \in IderwCalls : e[2] # NULL => e[3] = 0

\* C9: main runs to its end without fault: bget(10, 20) returns a slot with
\* dev 10, blockno 20, refcnt 1; bread(20, 40) leaves its slot valid; bwrite
\* leaves slot 1 dirty and valid; brelse brings the refcnt of slot 0 to 0
\* and slot 0 right after head.
C9_MainScenario ==
  script # OFF =>
    /\ status = "running"
    /\ script = 2 =>
         /\ last.ret # NULL
         /\ buf[last.ret].dev = 10
         /\ buf[last.ret].blockno = 20
         /\ buf[last.ret].refcnt = 1
    /\ script = 4 =>
         /\ last.ret # NULL
         /\ Bound(last.ret, <<20, 40>>)
         /\ buf[last.ret].valid = 1
    /\ script = 5 => buf[1].dirty = 1 /\ buf[1].valid = 1
    /\ script = 7 => buf[0].refcnt = 0 /\ next[HEAD] = 0

\* C10: as long as callers release only slots they hold, no two slots with
\* refcnt > 0 are bound to the same (dev, blockno).
C10_NoDuplicateLiveBinding ==
  misuses = 0 =>
    \A i, j \in Slots :
      (i # j /\ Owned(i) /\ Owned(j)) =>
        <<buf[i].dev, buf[i].blockno>> # <<buf[j].dev, buf[j].blockno>>

\* two slots owned at once, one of them by a hit, with a third slot that is
\* bound to the address of one of them
C10_TwoOwned ==
  /\ misuses = 0
  /\ \E i, j, h \in Slots :
       /\ i # j /\ h # i
       /\ Owned(i) /\ Owned(j)
       /\ <<buf[h].dev, buf[h].blockno>> = <<buf[i].dev, buf[i].blockno>>

\* C11: once binit has run, in every state between two operations the list
\* is one circular doubly linked list of the head and the NBUF slots: every
\* link points to a node, next and prev agree, and the walk from head along
\* next meets every slot exactly once before it comes back to head.
C11_ListIntact ==
  boot # "start" =>
    /\ \A x \in Nodes : next[x] \in Nodes /\ prev[x] \in Nodes
    /\ \A x \in Nodes : prev[next[x]] = x /\ next[prev[x]] = x
    /\ Len(Walk(next, next[HEAD], NBUF + 1)) = NBUF
    /\ {Walk(next, next[HEAD], NBUF + 1)[j] : j \in 1..NBUF} = Slots

\* a brelse that moved a slot from further down the list to the front
C11_MovedToFront ==
  /\ Returned("brelse")
  /\ buf[last.b].refcnt = 0
  /\ last.mru # last.b
  /\ next[HEAD] = last.b

\* C12: bcache.lock is free whenever bget or brelse has returned, whichever
\* return it took: the hit, the rebinding or the return of the null pointer.
C12_LockFreeOnReturn ==
  (Returned("bget") \/ Returned("brelse")) => lock = 0

\* the slot with refcnt 0 that is nearest to the least recently used end
LruFree ==
  FirstOf(Walk(prev, prev[HEAD], NBUF), {i \in Slots : buf[i].refcnt = 0})

\* C13: a bget(d, b) that starts with the lock free, no slot bound to (d, b)
\* and some slot with refcnt 0 rebinds the slot with refcnt 0 nearest to the
\* least recently used end, dirty or not, and only that one: it gets dev d,
\* blockno b, valid 0, refcnt 1, and it is the slot returned.
C13_MissRebindsLruFree ==
  [][\A c \in Callers, a \in Addrs :
       (/\ lock = 0
        /\ \A i \in Slots : ~Bound(i, a)
        /\ LruFree # NULL
        /\ bget(c, a[1], a[2]))
       => /\ last'.out = "ret"
          /\ last'.ret = LruFree
          /\ buf'[LruFree].dev = a[1]
          /\ buf'[LruFree].blockno = a[2]
          /\ buf'[LruFree].valid = 0
          /\ buf'[LruFree].refcnt = 1
          /\ \A j \in Slots \ {LruFree} :
               /\ buf'[j].dev = buf[j].dev
               /\ buf'[j].blockno = buf[j].blockno]_vars

\* C14: the slot bget returns has its lock set, and a brelse that has
\* returned leaves the lock of the released slot clear.
C14_ReleaseClearsSlotLock ==
  /\ (Returned("bget") /\ last.ret # NULL) => buf[last.ret].lock = 1
  /\ Returned("brelse") => buf[last.b].lock = 0

\* the events of the call that has just run
Events(l) == {l.log[j] : j \in 1..Len(l.log)}

\* the place of slot i in the walk from the least recently used end
LruRank(i) ==
  CHOOSE j \in 1..NBUF : Walk(prev, prev[HEAD], NBUF)[j] = i

\* C15: dev and blockno of a slot change only by the rebinding of bget
\* (called directly or by bread), only for the one slot that the call
\* rebinds, whose refcnt is 0 at the call, and only to the address asked
\* for; bwrite, brelse and the statements of bread after its bget change no
\* slot's dev or blockno.
C15_AddressChangesOnlyByRebind ==
  [][\A j \in Slots :
       (buf'[j].dev # buf[j].dev \/ buf'[j].blockno # buf[j].blockno)
       => /\ last'.op \in {"bget", "bread"}
          /\ <<"rebind", j>> \in Events(last')
          /\ buf[j].refcnt = 0
          /\ buf'[j].dev = last'.dev
          /\ buf'[j].blockno = last'.blockno]_vars

\* a bget that rebound a slot after it passed over a dirty slot with
\* refcnt # 0 nearer to the least recently used end
C15_ReboundPastOwned ==
  /\ Returned("bget")
  /\ last.ret # NULL
  /\ <<"rebind", last.ret>> \in Events(last)
  /\ \E j \in Slots :
       /\ Owned(j)
       /\ buf[j].dirty = 1
       /\ LruRank(j) < LruRank(last.ret)

\* C16: brelse does not evict.  A slot s with refcnt 0 that is bound to an
\* address other than (0, 0) of zeroed storage is a slot that bget rebound
\* to that address and returned, that brelse has released to refcnt 0 since
\* and that no miss has recycled since.  The next bget of that address
\* returns s by the hit path, with dev, blockno and valid as they were and
\* refcnt 1.
C16_ReleasedSlotStaysResident ==
  [][\A c \in Callers, a \in Addrs \ {<<0, 0>>}, s \in Slots :
       (/\ Bound(s, a)
        /\ buf[s].refcnt = 0
        /\ bget(c, a[1], a[2]))
       => /\ last'.out = "ret"
          /\ last'.ret = s
          /\ <<"hit", s>> \in Events(last')
          /\ Bound(s, a)'
          /\ buf'[s].valid = buf[s].valid
          /\ buf'[s].refcnt = 1]_vars

\* C17: a bget or a brelse that is called with bcache.lock held jumps to
\* ERROR and leaves every field of every slot, every link and the lock as
\* they were at the call.
C17_HeldLockFaultsUntouched ==
  [][(/\ lock = 1
      /\ \/ \E c \in Callers, a \in Addrs : bget(c, a[1], a[2])
         \/ \E c \in Callers, i \in Slots : brelse(c, i))
     => (status' = "error" /\ UNCHANGED cache)]_vars

\* a brelse that found bcache.lock held, on a slot that had been handed out
C17_ReleaseFoundLockHeld ==
  /\ status = "error"
  /\ last.op = "brelse"
  /\ last.log = <<>>
  /\ last.held
  /\ lock = 1

\* C19: in a bget, called directly or by bread, the slot lock is taken only
\* after bcache.lock has been released, on the hit path and on the rebinding
\* path: at the statement that takes the slot lock bcache.lock is 0 and the
\* release comes earlier in the call.
C19_ReleaseBeforeSlotLock ==
  last.op \in {"bget", "bread"} =>
    \A j \in 1..Len(last.log) :
      last.log[j][1] = "acquiresleep" =>
        /\ last.log[j][3] = 0
        /\ \E h \in 1..(j - 1) : last.log[h] = <<"release">>

\* a bget that took the slot lock of a slot it had rebound
C19_TookSlotLockOnMiss ==
  /\ Returned("bget")
  /\ last.ret # NULL
  /\ <<"rebind", last.ret>> \in Events(last)
  /\ <<"acquiresleep", last.ret, 0>> \in Events(last)
  /\ buf[last.ret].lock = 1

\* C20: a slot that no miss has rebound is resident for no address: the
\* first call on the pool that binit has just set up, a bget of any address,
\* (0, 0) included, does not return by the hit path.
C20_FreshPoolNeverHits ==
  (calls = 1 /\ last.op = "bget") =>
    \A e \in Events(last) : e[1] # "hit"

====
